---- MODULE Spec2Model ----
(***************************************************************************)
(* Model of scripts/spm_encode_multiprocess.py: the command-line driver    *)
(* that encodes N parallel text files with a sentencepiece model through   *)
(* a multiprocessing.Pool, filters rows by token count and writes the      *)
(* surviving rows to N parallel output files.                              *)
(*                                                                         *)
(* Text is a sequence of one-character strings.  An Optional value of the  *)
(* program (args.min_len, an encoded line) is a sequence of length at most *)
(* one: <<>> is Python's None and <<v>> is the value v.                    *)
(***************************************************************************)
EXTENDS Integers, Sequences, FiniteSets, TLC

\* ---- bounds of the model ------------------------------------------------
\* the numbers of paths given to --inputs and to --outputs
PathCounts == {1, 2}
\* largest number of lines in an input file
MaxRows == 2
\* largest value of --processes
MaxProc == 2
\* largest value given to --min-len / --max-len
MaxLenArg == 2
\* rows per task handed to a worker (chunksize=500 in the program, scaled)
ChunkSize == 1

\* ---- program constants --------------------------------------------------
ProgressEvery == 10000

VARIABLES pc, args, sp, inputs, outputs, stats, pool, rows, taskq, results,
          log, stderr

vars == <<pc, args, sp, inputs, outputs, stats, pool, rows, taskq, results,
          log, stderr>>

\* ---- values ---------------------------------------------------------------
None == <<>>
Some(v) == <<v>>

\* the lines an input file can hold, each with its line terminator
Lines == { <<"\n">>, <<"a", "\n">>, <<" ", "a", " ", "b", "\n">> }

Min(a, b) == IF a <= b THEN a ELSE b

\* ---- str.strip ------------------------------------------------------------
IsSpace(c) == c \in {" ", "\n"}

RECURSIVE LStrip(_)
LStrip(s) ==
    IF s = <<>> THEN s
    ELSE IF IsSpace(Head(s)) THEN LStrip(Tail(s)) ELSE s

RECURSIVE RStrip(_)
RStrip(s) ==
    IF s = <<>> THEN s
    ELSE IF IsSpace(s[Len(s)]) THEN RStrip(SubSeq(s, 1, Len(s) - 1)) ELSE s

Strip(s) == RStrip(LStrip(s))

\* ---- the sentencepiece model (whitespace pieces with a word-start mark) ---
\* The segmentation is the library's; here a piece is a whitespace-separated
\* word behind a word-start mark.  --output_format id differs only in the
\* token strings (the decimal ids of the same pieces), not in their number,
\* so the piece format stands for both.
RECURSIVE Pieces(_, _, _)
Pieces(s, cur, acc) ==
    IF s = <<>> THEN (IF cur = <<>> THEN acc ELSE Append(acc, cur))
    ELSE IF IsSpace(Head(s))
         THEN Pieces(Tail(s), <<>>, IF cur = <<>> THEN acc ELSE Append(acc, cur))
         ELSE Pieces(Tail(s), IF cur = <<>> THEN <<"_", Head(s)>> ELSE Append(cur, Head(s)), acc)

encode_as_pieces(input) == Pieces(input, <<>>, <<>>)

\* " ".join(toks)
RECURSIVE Join(_)
Join(toks) ==
    IF toks = <<>> THEN <<>>
    ELSE IF Len(toks) = 1 THEN toks[1]
    ELSE toks[1] \o <<" ">> \o Join(Tail(toks))

\* ---- the length predicate -------------------------------------------------

\* variant: the bounds taken as exclusive
valid_length_filter_exclusive(a, line) ==
    /\ (a.min_len = None \/ Len(line) > a.min_len[1])
    /\ (a.max_len = None \/ Len(line) < a.max_len[1])

valid_length_filter(a, line) ==
    /\ (a.min_len = None \/ Len(line) >= a.min_len[1])
    /\ (a.max_len = None \/ Len(line) <= a.max_len[1])

valid_true(a, lines) == TRUE

valid(a, line_toks) ==
    IF a.min_len # None \/ a.max_len # None
    THEN valid_length_filter(a, line_toks)
    ELSE valid_true(a, line_toks)

\* ---- encode_lines ---------------------------------------------------------

\* variant: the line is not stripped before the emptiness test
encode_line_unstripped(a, line0) ==
    LET line == line0 IN
    IF Len(line) > 0
    THEN LET line_toks == encode_as_pieces(line) IN
         IF valid(a, line_toks)
         THEN <<Some(Join(line_toks)), FALSE, FALSE>>
         ELSE <<None, TRUE, FALSE>>
    ELSE <<Some(<<>>), FALSE, TRUE>>

encode_line(a, line0) ==
    LET line == Strip(line0) IN
    IF Len(line) > 0
    THEN LET line_toks == encode_as_pieces(line) IN
         IF valid(a, line_toks)
         THEN <<Some(Join(line_toks)), FALSE, FALSE>>
         ELSE <<None, TRUE, FALSE>>
    ELSE <<Some(<<>>), FALSE, TRUE>>

\* variant: the row is flagged filtered only when every position is
encode_lines_allFiltered(a, lines) ==
    LET res == [f \in 1..Len(lines) |-> encode_line(a, lines[f])] IN
    [ enc_lines   |-> [f \in 1..Len(lines) |-> res[f][1]],
      is_filtered |-> \A f \in 1..Len(lines) : res[f][2],
      is_empty    |-> \E f \in 1..Len(lines) : res[f][3] ]

encode_lines(a, lines) ==
    LET res == [f \in 1..Len(lines) |-> encode_line(a, lines[f])] IN
    [ enc_lines   |-> [f \in 1..Len(lines) |-> res[f][1]],
      is_filtered |-> \E f \in 1..Len(lines) : res[f][2],
      is_empty    |-> \E f \in 1..Len(lines) : res[f][3] ]

\* ---- main: argument check --------------------------------------------------

\* variant: the assertion is not made
InputsMatchOutputs_unchecked(a) == TRUE

\* assert len(args.inputs) == len(args.outputs); the paths are modelled by
\* their number
InputsMatchOutputs(a) == a.inputs = a.outputs

\* ---- list(zip(*inputs)) ---------------------------------------------------
RECURSIVE MinLen(_)
MinLen(files) ==
    IF Len(files) = 1 THEN Len(files[1])
    ELSE Min(Len(files[1]), MinLen(Tail(files)))

\* variant: itertools.zip_longest with an empty fill value
ZipLongest(files) ==
    LET n == CHOOSE m \in 0..MaxRows :
                 /\ \A f \in 1..Len(files) : Len(files[f]) <= m
                 /\ \E f \in 1..Len(files) : Len(files[f]) = m
    IN [i \in 1..n |-> [f \in 1..Len(files) |->
                          IF i <= Len(files[f]) THEN files[f][i] ELSE <<>>]]

Zip(files) ==
    [i \in 1..MinLen(files) |-> [f \in 1..Len(files) |-> files[f][i]]]

\* ---- Pool.imap(..., chunksize) --------------------------------------------
NChunks(n) == (n + ChunkSize - 1) \div ChunkSize

ChunkOf(i) == ((i - 1) \div ChunkSize) + 1

ChunkRows(c, n) == ((c - 1) * ChunkSize + 1) .. Min(c * ChunkSize, n)

\* variant: Pool.imap_unordered, any finished row not yet yielded
ImapNextUnordered(res, yielded) ==
    {i \in 1..Len(rows) :
        /\ res[ChunkOf(i)] # <<>>
        /\ \A k \in 1..Len(yielded) : yielded[k] # i}

\* the rows the imap iterator can yield next: the first row not yet yielded,
\* once the chunk that holds it has come back from its worker
ImapNext(res, yielded) ==
    LET i == Len(yielded) + 1 IN
    IF i <= Len(rows) /\ res[ChunkOf(i)] # <<>> THEN {i} ELSE {}

RowResult(res, i) == res[ChunkOf(i)][i - (ChunkOf(i) - 1) * ChunkSize]

\* ---- the aggregation loop body ---------------------------------------------
\* print(x, file=h): the text of the line h receives, without the terminator
Str(x) == IF x = None THEN <<"N", "o", "n", "e">> ELSE x[1]

\* variant: the filtered counter counts positions, not rows
StatsAfter_perPosition(st, r, keep_empty) ==
    IF r.is_filtered
    THEN [st EXCEPT !.num_filtered =
            @ + Cardinality({h \in 1..Len(r.enc_lines) : r.enc_lines[h] = None})]
    ELSE IF r.is_empty /\ ~keep_empty
         THEN [st EXCEPT !.num_empty = @ + 1]
         ELSE st

\* variant: "if" in place of "elif", both counters can move for one row
StatsAfter_bothCounters(st, r, keep_empty) ==
    LET st1 == IF r.is_filtered THEN [st EXCEPT !.num_filtered = @ + 1] ELSE st
    IN IF r.is_empty /\ ~keep_empty
       THEN [st1 EXCEPT !.num_empty = @ + 1]
       ELSE st1

\* variant: the empty test is made before the filtered test
StatsAfter_emptyFirst(st, r, keep_empty) ==
    IF r.is_empty /\ ~keep_empty
    THEN [st EXCEPT !.num_empty = @ + 1]
    ELSE IF r.is_filtered
         THEN [st EXCEPT !.num_filtered = @ + 1]
         ELSE st

StatsAfter(st, r, keep_empty) ==
    IF r.is_filtered
    THEN [st EXCEPT !.num_filtered = @ + 1]
    ELSE IF r.is_empty /\ ~keep_empty
         THEN [st EXCEPT !.num_empty = @ + 1]
         ELSE st

\* variant: --keep-empty is ignored, rows with an empty line are dropped
OutputsAfter_dropEmpty(outs, r, keep_empty) ==
    IF r.is_filtered THEN outs
    ELSE IF r.is_empty THEN outs
    ELSE [h \in 1..Len(outs) |->
            IF h <= Min(Len(r.enc_lines), Len(outs))
            THEN Append(outs[h], Str(r.enc_lines[h]))
            ELSE outs[h]]

\* variant: with --keep-empty a row with an empty line is written before the
\* filtered flag is looked at
OutputsAfter_keepEmptyFirst(outs, r, keep_empty) ==
    IF r.is_filtered /\ ~(r.is_empty /\ keep_empty) THEN outs
    ELSE IF r.is_empty /\ ~keep_empty THEN outs
    ELSE [h \in 1..Len(outs) |->
            IF h <= Min(Len(r.enc_lines), Len(outs))
            THEN Append(outs[h], Str(r.enc_lines[h]))
            ELSE outs[h]]

OutputsAfter(outs, r, keep_empty) ==
    IF r.is_filtered THEN outs
    ELSE IF r.is_empty /\ ~keep_empty THEN outs
    ELSE [h \in 1..Len(outs) |->
            IF h <= Min(Len(r.enc_lines), Len(outs))
            THEN Append(outs[h], Str(r.enc_lines[h]))
            ELSE outs[h]]

\* ---- state machine ---------------------------------------------------------
OptLen == {None} \cup {Some(n) : n \in 1..MaxLenArg}

Files == UNION {[1..n -> Lines] : n \in 0..MaxRows}

\* the state after parser.parse_args()
Init ==
    /\ pc = "assert"
    /\ args \in [inputs : PathCounts, outputs : PathCounts,
                 min_len : OptLen, max_len : OptLen,
                 keep_empty : BOOLEAN, processes : 1..MaxProc]
    /\ sp = FALSE
    /\ inputs = <<>>
    /\ outputs = <<>>
    /\ stats = [num_empty |-> 0, num_filtered |-> 0]
    /\ pool = [size |-> 0, busy |-> {}]
    /\ rows = <<>>
    /\ taskq = 0
    /\ results = <<>>
    /\ log = <<>>
    /\ stderr = <<>>

AssertCounts ==
    /\ pc = "assert"
    /\ pc' = IF InputsMatchOutputs(args) THEN "load" ELSE "aborted"
    /\ UNCHANGED <<args, sp, inputs, outputs, stats, pool, rows, taskq,
                   results, log, stderr>>

LoadModel ==
    /\ pc = "load"
    /\ sp' = TRUE
    /\ pc' = "open_inputs"
    /\ UNCHANGED <<args, inputs, outputs, stats, pool, rows, taskq, results,
                   log, stderr>>

\* sp.Load raises: the run ends with the uncaught error
LoadModelFails ==
    /\ pc = "load"
    /\ pc' = "aborted"
    /\ UNCHANGED <<args, sp, inputs, outputs, stats, pool, rows, taskq,
                   results, log, stderr>>

\* the input files hold whatever the caller put there
OpenInputs ==
    /\ pc = "open_inputs"
    /\ inputs' \in [1..args.inputs -> Files]
    /\ pc' = "open_outputs"
    /\ UNCHANGED <<args, sp, outputs, stats, pool, rows, taskq, results, log,
                   stderr>>

\* open(output, "w") creates or truncates every output file
OpenOutputs ==
    /\ pc = "open_outputs"
    /\ outputs' = [h \in 1..args.outputs |-> <<>>]
    /\ pc' = "pool"
    /\ UNCHANGED <<args, sp, inputs, stats, pool, rows, taskq, results, log,
                   stderr>>

\* Pool(args.processes, initializer=...): the worker processes are
\* interchangeable, so the pool is its size and the set of chunks its workers
\* are encoding; every worker runs initialize_sp, which touches only its own
\* sp, before its first task
StartPool ==
    /\ pc = "pool"
    /\ pool' = [size |-> args.processes, busy |-> {}]
    /\ pc' = "imap"
    /\ UNCHANGED <<args, sp, inputs, outputs, stats, rows, taskq, results,
                   log, stderr>>

Imap ==
    /\ pc = "imap"
    /\ rows' = Zip(inputs)
    /\ results' = [c \in 1..NChunks(Len(Zip(inputs))) |-> <<>>]
    /\ taskq' = 1
    /\ pc' = "loop"
    /\ UNCHANGED <<args, sp, inputs, outputs, stats, pool, log, stderr>>

\* an idle worker takes the next chunk from the task queue
WorkerTake ==
    /\ pc = "loop"
    /\ Cardinality(pool.busy) < pool.size
    /\ taskq <= Len(results)
    /\ pool' = [pool EXCEPT !.busy = @ \cup {taskq}]
    /\ taskq' = taskq + 1
    /\ UNCHANGED <<pc, args, sp, inputs, outputs, stats, rows, results, log,
                   stderr>>

\* the worker encoding chunk c sends back list(map(encode_lines, chunk))
WorkerFinish(c) ==
    /\ pc = "loop"
    /\ c \in pool.busy
    /\ LET first == (c - 1) * ChunkSize IN
       results' = [results EXCEPT ![c] =
                     [j \in 1..Cardinality(ChunkRows(c, Len(rows))) |->
                        encode_lines(args, rows[first + j])]]
    /\ pool' = [pool EXCEPT !.busy = @ \ {c}]
    /\ UNCHANGED <<pc, args, sp, inputs, outputs, stats, rows, taskq, log,
                   stderr>>

Aggregate ==
    /\ pc = "loop"
    /\ \E i \in ImapNext(results, log) :
         LET r == RowResult(results, i)
             n == Len(log) + 1 IN
         /\ stats' = StatsAfter(stats, r, args.keep_empty)
         /\ outputs' = OutputsAfter(outputs, r, args.keep_empty)
         /\ log' = Append(log, i)
         /\ stderr' = IF n % ProgressEvery = 0
                      THEN Append(stderr, <<"processed", n>>)
                      ELSE stderr
    /\ UNCHANGED <<pc, args, sp, inputs, pool, rows, taskq, results>>

\* the iterator is exhausted: leave the Pool block and print the summary
Finish ==
    /\ pc = "loop"
    /\ Len(log) = Len(rows)
    /\ pool' = [size |-> 0, busy |-> {}]
    /\ stderr' = stderr \o << <<"skipped", stats.num_empty>>,
                              <<"filtered", stats.num_filtered>> >>
    /\ pc' = "done"
    /\ UNCHANGED <<args, sp, inputs, outputs, stats, rows, taskq, results,
                   log>>

Next ==
    \/ AssertCounts
    \/ LoadModel
    \/ LoadModelFails
    \/ OpenInputs
    \/ OpenOutputs
    \/ StartPool
    \/ Imap
    \/ WorkerTake
    \/ \E c \in 1..Len(results) : WorkerFinish(c)
    \/ Aggregate
    \/ Finish

Spec == Init /\ [][Next]_vars

\* ---- vocabulary of the properties -------------------------------------------
Blank(line0) == Strip(line0) = <<>>

TokCount(line0) == Len(encode_as_pieces(Strip(line0)))

TooShort(line0) == args.min_len # None /\ TokCount(line0) < args.min_len[1]

TooLong(line0) == args.max_len # None /\ TokCount(line0) > args.max_len[1]

OutOfBounds(line0) == ~Blank(line0) /\ (TooShort(line0) \/ TooLong(line0))

RowOutOfBounds(row) == \E f \in 1..Len(row) : OutOfBounds(row[f])

RowHasBlank(row) == \E f \in 1..Len(row) : Blank(row[f])

RowBlank(row) == \A f \in 1..Len(row) : Blank(row[f])

Survives(row) ==
    ~RowOutOfBounds(row) /\ (args.keep_empty \/ ~RowHasBlank(row))

Encoding(line0) == Join(encode_as_pieces(Strip(line0)))

\* the lines output h holds once rows 1..n have been aggregated in input order
RECURSIVE SurvivorLines(_, _)
SurvivorLines(h, n) ==
    IF n = 0 THEN <<>>
    ELSE IF Survives(rows[n])
         THEN Append(SurvivorLines(h, n - 1), Encoding(rows[n][h]))
         ELSE SurvivorLines(h, n - 1)

Ready(i) == i \in 1..Len(rows) /\ results[ChunkOf(i)] # <<>>

\* the step in which the aggregator consumes the result of row i
Consumes(i) == log' = Append(log, i)

Written(h, line) == outputs'[h] = Append(outputs[h], line)

ShortestLen ==
    CHOOSE n \in 0..MaxRows :
        /\ \A f \in 1..Len(inputs) : Len(inputs[f]) >= n
        /\ \E f \in 1..Len(inputs) : Len(inputs[f]) = n

\* ---- C1 ------------------------------------------------------------------
\* C1: whatever the worker count and the order in which workers finish, the
\* aggregator consumes the row results in input order (row k is the k-th
\* result consumed) and every output file holds, in input order, the
\* encodings of the consumed rows that survive filtering.
C1_OrderPreserved ==
    /\ \A k \in 1..Len(log) : log[k] = k
    /\ \A h \in 1..Len(outputs) : outputs[h] = SurvivorLines(h, Len(log))

\* a later chunk has come back from its worker before the first one, with
\* two workers and a second row that is written
C1_Witness ==
    /\ pc = "loop"
    /\ args.processes >= 2
    /\ Len(results) >= 2
    /\ results[1] = <<>>
    /\ results[Len(results)] # <<>>
    /\ Survives(rows[Len(rows)])
    /\ log = <<>>

\* ---- C2 ------------------------------------------------------------------
\* C2: a row in which some line's token count lies outside [min_len, max_len]
\* adds no line to any output file and adds exactly one to the filtered
\* counter, however many of its positions fail; so the counter equals the
\* number of such rows consumed.
C2_FilteredRowDropped ==
    /\ [](stats.num_filtered =
            Cardinality({k \in 1..Len(log) : RowOutOfBounds(rows[log[k]])}))
    /\ [][\A i \in 1..Len(rows) :
            (Consumes(i) /\ RowOutOfBounds(rows[i]))
            => /\ outputs' = outputs
               /\ stats'.num_filtered = stats.num_filtered + 1]_vars

\* a consumed row in which two positions fail the predicate, counted once
C2_Witness ==
    /\ Len(log) = 1
    /\ Cardinality({f \in 1..Len(rows[1]) : OutOfBounds(rows[1][f])}) >= 2
    /\ stats.num_filtered = 1
    /\ \A h \in 1..Len(outputs) : outputs[h] = <<>>

\* ---- C3 ------------------------------------------------------------------
\* C3: for a row whose lines are all empty after stripping, the encoder
\* returns an empty string at every position; without --keep-empty the
\* aggregator writes nothing and adds one to the empty counter, with
\* --keep-empty it writes one empty line to every output and leaves the empty
\* counter alone; the filtered counter does not move in either case.
C3_BlankRow ==
    /\ [](\A i \in 1..Len(rows) :
            (Ready(i) /\ RowBlank(rows[i]))
            => \A f \in 1..Len(rows[i]) :
                  RowResult(results, i).enc_lines[f] = Some(<<>>))
    /\ [][\A i \in 1..Len(rows) :
            (Consumes(i) /\ RowBlank(rows[i]))
            => /\ stats'.num_filtered = stats.num_filtered
               /\ IF args.keep_empty
                  THEN /\ \A h \in 1..Len(outputs) : Written(h, <<>>)
                       /\ stats'.num_empty = stats.num_empty
                  ELSE /\ outputs' = outputs
                       /\ stats'.num_empty = stats.num_empty + 1]_vars

\* an all-empty row of two files consumed without --keep-empty
C3_Witness ==
    /\ ~args.keep_empty
    /\ Len(log) = 1
    /\ Len(rows[1]) = 2
    /\ RowBlank(rows[1])
    /\ stats = [num_empty |-> 1, num_filtered |-> 0]
    /\ \A h \in 1..Len(outputs) : outputs[h] = <<>>

\* ---- C4 ------------------------------------------------------------------
\* C4 as stated: with --keep-empty every line that is empty after stripping
\* gives an empty line in its output file, for every row and every
\* combination of the other options, and the empty counter never moves.
C4_Original ==
    /\ [](args.keep_empty => stats.num_empty = 0)
    /\ [][\A i \in 1..Len(rows) : \A f \in 1..Len(inputs) :
            (args.keep_empty /\ Consumes(i) /\ Blank(rows[i][f]))
            => Written(f, <<>>)]_vars

\* C4 (amended): with --keep-empty every line that is empty after stripping,
\* in a row no position of which fails the length predicate, gives an empty
\* line in its output file; the empty counter never moves.
C4_Amended ==
    /\ [](args.keep_empty => stats.num_empty = 0)
    /\ [][\A i \in 1..Len(rows) : \A f \in 1..Len(inputs) :
            (args.keep_empty /\ Consumes(i) /\ Blank(rows[i][f])
               /\ ~RowOutOfBounds(rows[i]))
            => Written(f, <<>>)]_vars

\* with --keep-empty and --min-len, a row of two files, one line empty and
\* the other within bounds, has been written
C4_Witness ==
    /\ args.keep_empty
    /\ args.min_len # None
    /\ Len(log) = 1
    /\ Len(rows[1]) = 2
    /\ Blank(rows[1][1])
    /\ ~Blank(rows[1][2])
    /\ ~RowOutOfBounds(rows[1])
    /\ outputs[1] = << <<>> >>
    /\ Len(outputs[2]) = 1
    /\ stats.num_empty = 0

\* ---- C5 ------------------------------------------------------------------
\* C5: when the numbers of --inputs and --outputs paths differ, the run
\* aborts before anything is done: no model loaded, no input or output file
\* opened, no worker started, no row encoded, nothing written.
C5_MismatchAbortsEarly ==
    args.inputs # args.outputs
    => /\ pc \in {"assert", "aborted"}
       /\ sp = FALSE
       /\ inputs = <<>>
       /\ outputs = <<>>
       /\ pool.size = 0
       /\ rows = <<>>
       /\ results = <<>>
       /\ log = <<>>
       /\ stderr = <<>>

\* the run has aborted on a mismatch
C5_Witness == pc = "aborted" /\ args.inputs # args.outputs

\* ---- C6 ------------------------------------------------------------------
\* C6: a non-empty line is marked filtered (its position is None and the row
\* flag is set) exactly when its token count is below min_len, if given, or
\* above max_len, if given; a count equal to either bound passes, and with
\* neither bound nothing is filtered.
C6_InclusiveBounds ==
    \A i \in 1..Len(rows) :
       Ready(i) =>
         LET r == RowResult(results, i) IN
         /\ \A f \in 1..Len(rows[i]) :
              ~Blank(rows[i][f]) =>
                 /\ (r.enc_lines[f] = None)
                      <=> (TooShort(rows[i][f]) \/ TooLong(rows[i][f]))
                 /\ (args.min_len = Some(TokCount(rows[i][f]))
                       /\ ~TooLong(rows[i][f])) => r.enc_lines[f] # None
                 /\ (args.max_len = Some(TokCount(rows[i][f]))
                       /\ ~TooShort(rows[i][f])) => r.enc_lines[f] # None
         /\ r.is_filtered <=> \E f \in 1..Len(rows[i]) : r.enc_lines[f] = None
         /\ (args.min_len = None /\ args.max_len = None) => ~r.is_filtered

\* a line whose token count equals both bounds has been encoded and passed
C6_Witness ==
    \E i \in 1..Len(rows) :
       /\ Ready(i)
       /\ \E f \in 1..Len(rows[i]) :
            /\ ~Blank(rows[i][f])
            /\ args.min_len = Some(TokCount(rows[i][f]))
            /\ args.max_len = Some(TokCount(rows[i][f]))
            /\ RowResult(results, i).enc_lines[f] # None

\* ---- C7 ------------------------------------------------------------------
\* C7: the aggregator tests filtered, then empty, then writes: a row whose
\* result carries both flags adds one to the filtered counter only and
\* writes nothing, with or without --keep-empty; and every row takes exactly
\* one of the three branches (one filtered count, one empty count, or one
\* line to every output).
BranchFiltered ==
    /\ stats' = [stats EXCEPT !.num_filtered = @ + 1]
    /\ outputs' = outputs

BranchEmpty ==
    /\ stats' = [stats EXCEPT !.num_empty = @ + 1]
    /\ outputs' = outputs

BranchWrite ==
    /\ stats' = stats
    /\ \A h \in 1..Len(outputs) : Len(outputs'[h]) = Len(outputs[h]) + 1

C7_BranchPriority ==
    [][\A i \in 1..Len(rows) :
         Consumes(i) =>
           LET r == RowResult(results, i) IN
           /\ (r.is_filtered /\ r.is_empty) => BranchFiltered
           /\ r.is_filtered => BranchFiltered
           /\ (~r.is_filtered /\ r.is_empty /\ ~args.keep_empty) => BranchEmpty
           /\ (~r.is_filtered /\ ~(r.is_empty /\ ~args.keep_empty)) => BranchWrite
           /\ Cardinality({b \in {"f", "e", "w"} :
                            \/ b = "f" /\ BranchFiltered
                            \/ b = "e" /\ BranchEmpty
                            \/ b = "w" /\ BranchWrite}) = 1]_vars

\* a row with one position out of bounds and another empty has been
\* consumed without --keep-empty and counted as filtered only
C7_Witness ==
    /\ ~args.keep_empty
    /\ Len(log) = 1
    /\ RowResult(results, 1).is_filtered
    /\ RowResult(results, 1).is_empty
    /\ stats = [num_empty |-> 0, num_filtered |-> 1]
    /\ \A h \in 1..Len(outputs) : outputs[h] = <<>>

\* ---- C8 ------------------------------------------------------------------
\* C8: with input files of different lengths the run processes exactly as
\* many rows as the shortest file has lines, row i being line i of every
\* file; no line beyond that is encoded, counted or written, and the run
\* ends normally.
C8_TruncatesToShortest ==
    /\ inputs # <<>> => pc # "aborted"
    /\ pc \in {"loop", "done"} =>
         /\ Len(rows) = ShortestLen
         /\ \A i \in 1..Len(rows) : \A f \in 1..Len(inputs) :
               rows[i][f] = inputs[f][i]
         /\ \A c \in 1..Len(results) : \A j \in 1..Len(results[c]) :
               (c - 1) * ChunkSize + j <= ShortestLen
         /\ Len(log) <= ShortestLen
         /\ \A h \in 1..Len(outputs) :
               Len(outputs[h]) + stats.num_empty + stats.num_filtered
                  <= ShortestLen
    /\ pc = "done" =>
         /\ Len(log) = ShortestLen
         /\ \A h \in 1..Len(outputs) :
               Len(outputs[h]) + stats.num_empty + stats.num_filtered
                  = ShortestLen

\* a run over two files of different lengths has ended, one row written
C8_Witness ==
    /\ pc = "done"
    /\ Len(inputs) = 2
    /\ Len(inputs[1]) = 2
    /\ Len(inputs[2]) = 1
    /\ Len(log) = 1
    /\ Len(outputs[1]) = 1

\* ---- C9 ------------------------------------------------------------------
\* C9: after k rows have been aggregated every output file holds the same
\* number w of lines and w + num_empty + num_filtered = k; each counter only
\* grows, by at most one per row.
C9_Accounting ==
    /\ [](\A h \in 1..Len(outputs) :
            /\ Len(outputs[h]) = Len(outputs[1])
            /\ Len(outputs[h]) + stats.num_empty + stats.num_filtered
                 = Len(log))
    /\ [][/\ stats'.num_empty \in {stats.num_empty, stats.num_empty + 1}
          /\ stats'.num_filtered \in
                {stats.num_filtered, stats.num_filtered + 1}
          /\ stats' # stats => Len(log') = Len(log) + 1]_vars

\* two rows of two files aggregated: one dropped as empty, one as filtered
C9_Witness ==
    /\ Len(log) = 2
    /\ Len(outputs) = 2
    /\ stats = [num_empty |-> 1, num_filtered |-> 1]

\* ---- C10 -----------------------------------------------------------------
\* C10: the None placeholder is never written: a row result that holds None
\* carries the filtered flag, no output line is the text "None", and every
\* written line is the empty string or the space-joined tokenization of the
\* line of a consumed row that passed the length predicate.
C10_NoneNeverWritten ==
    /\ \A i \in 1..Len(rows) :
         (Ready(i) /\ \E f \in 1..Len(rows[i]) :
                         RowResult(results, i).enc_lines[f] = None)
         => RowResult(results, i).is_filtered
    /\ \A h \in 1..Len(outputs) : \A n \in 1..Len(outputs[h]) :
         /\ outputs[h][n] # Str(None)
         /\ \/ outputs[h][n] = <<>>
            \/ \E k \in 1..Len(log) :
                  /\ ~OutOfBounds(rows[log[k]][h])
                  /\ outputs[h][n] = Encoding(rows[log[k]][h])

\* with --keep-empty, a row holding an empty line and a line out of bounds
\* has been consumed and nothing was written for it
C10_Witness ==
    /\ args.keep_empty
    /\ Len(log) = 1
    /\ \E f \in 1..Len(rows[1]) : RowResult(results, 1).enc_lines[f] = None
    /\ RowHasBlank(rows[1])
    /\ \A h \in 1..Len(outputs) : outputs[h] = <<>>

====
